---- MODULE Spec2Model ----
(***************************************************************************)
(* taglib-rs: the safe wrapper of src/src/lib.rs (TagLibFile, TagLibTag)   *)
(* over the foreign tag engine (taglib_sys).  The wrapper's handlers are   *)
(* translated from lib.rs; the engine is an instrumented double that       *)
(* follows the contract of the specification's external-interface section  *)
(* and counts the calls it receives.                                       *)
(***************************************************************************)
EXTENDS Integers, Sequences, FiniteSets, TLC

(***************************************************************************)
(* Bounds.                                                                 *)
(***************************************************************************)
\* engine calls (opens, text reads, writes) the model lets the process make
MaxCalls == 3

\* the two client threads, each holding at most one TagLibFile at a time
Slots == {1, 2}

(***************************************************************************)
(* Bytes and text.                                                         *)
(***************************************************************************)
\* the C string terminator, rejected by CString::new
NUL == 0

Fields == {"title", "artist", "album", "comment", "genre"}
NumFields == {"year", "track", "bpm"}

\* u32 values handed to and returned by the numeric accessors (the sentinel,
\* the smallest value that is not the sentinel, and a large one)
U32Vals == {0, 1, 2147483647}

\* Result<T, E>
Ok(v) == [ok |-> TRUE, val |-> v]
Err(e) == [ok |-> FALSE, err |-> e]

HasNul(s) == \E i \in 1..Len(s) : s[i] = NUL

\* index of the first terminator of s, Len(s)+1 when there is none
RECURSIVE FirstNul(_, _)
FirstNul(s, i) ==
    IF i > Len(s) THEN Len(s) + 1
    ELSE IF s[i] = NUL THEN i
    ELSE FirstNul(s, i + 1)

\* C's view of a character array: the bytes before the first terminator
CStrBytes(s) == SubSeq(s, 1, FirstNul(s, 1) - 1)

IsCont(b) == b >= 128 /\ b <= 191

\* core::str::from_utf8: well-formed UTF-8, shortest form, no surrogates
RECURSIVE Utf8Valid(_)
Utf8Valid(s) ==
    IF Len(s) = 0 THEN TRUE
    ELSE LET b == s[1]
             n == Len(s)
             Rest(k) == SubSeq(s, k + 1, n)
         IN IF b < 128 THEN Utf8Valid(Rest(1))
            ELSE IF b >= 194 /\ b <= 223
                 THEN n >= 2 /\ IsCont(s[2]) /\ Utf8Valid(Rest(2))
            ELSE IF b >= 224 /\ b <= 239
                 THEN /\ n >= 3
                      /\ IsCont(s[2]) /\ IsCont(s[3])
                      /\ (b = 224 => s[2] >= 160)
                      /\ (b = 237 => s[2] <= 159)
                      /\ Utf8Valid(Rest(3))
            ELSE IF b >= 240 /\ b <= 244
                 THEN /\ n >= 4
                      /\ IsCont(s[2]) /\ IsCont(s[3]) /\ IsCont(s[4])
                      /\ (b = 240 => s[2] >= 144)
                      /\ (b = 244 => s[2] <= 143)
                      /\ Utf8Valid(Rest(4))
            ELSE FALSE

\* Path::to_str: the path as text, None when it is not valid Unicode
Path_to_str(path) == IF Utf8Valid(path) THEN Ok(path) ELSE Err("PathAsString")

\* fault: CString::new without the interior-terminator check
CString_new_unchecked(s) == Ok(s \o <<NUL>>)

\* CString::new: the bytes plus a terminator, NulError on an interior one
CString_new(s) == IF HasNul(s) THEN Err("NulError") ELSE Ok(s \o <<NUL>>)

\* fault: the path conversion without the terminator check
cs_filename_lossy(path) ==
    IF ~Path_to_str(path).ok THEN Err("PathAsString")
    ELSE Ok(Path_to_str(path).val \o <<NUL>>)

\* new(): `filename.into().to_str().ok_or(PathAsString).and_then(CString::new ...)`
cs_filename(path) ==
    LET t == Path_to_str(path)
    IN IF ~t.ok THEN Err("PathAsString")
       ELSE IF ~CString_new(t.val).ok THEN Err("NullPathString")
       ELSE CString_new(t.val)

(***************************************************************************)
(* Inputs.                                                                 *)
(***************************************************************************)
\* paths handed to new(): missing file, unrecognised container, two tagged
\* files, a path that is not text, a path with an embedded terminator
PathInputs == { <<109>>, <<98>>, <<97>>, <<99>>, <<255>>, <<97, 0, 98>> }

\* &str values handed to the text setters (always valid UTF-8 in Rust)
TextInputs == { <<>>, <<97>>, <<195, 169>>, <<98, 0, 97>> }

(***************************************************************************)
(* The engine double: what is on disk.                                     *)
(***************************************************************************)
NoFile == [exists |-> FALSE, valid |-> FALSE,
           text |-> [f \in Fields |-> <<>>], num |-> [f \in NumFields |-> 0]]

\* the files the engine finds, by C path
Disk(cpath) ==
    IF cpath = <<97>> THEN
        [exists |-> TRUE, valid |-> TRUE,
         text |-> [f \in Fields |->
                     IF f = "title" THEN <<97>>
                     ELSE IF f = "album" THEN <<195, 169>> ELSE <<>>],
         num |-> [f \in NumFields |-> IF f = "track" THEN 1 ELSE 0]]
    ELSE IF cpath = <<99>> THEN
        [exists |-> TRUE, valid |-> TRUE,
         text |-> [f \in Fields |->
                     IF f = "title" THEN <<255>>
                     ELSE IF f = "genre" THEN <<195>> ELSE <<98>>],
         num |-> [f \in NumFields |->
                     IF f = "year" THEN 2147483647
                     ELSE IF f = "bpm" THEN 1 ELSE 0]]
    ELSE IF cpath = <<98>> THEN
        [NoFile EXCEPT !.exists = TRUE]
    ELSE NoFile


(***************************************************************************)
(* State.                                                                  *)
(***************************************************************************)
VARIABLES
    handle,            \* per thread: the TagLibFile it owns (file_handle, tag)
    resState,          \* engine: each file resource "unused", "open" or "freed"
    freeCalls,         \* engine: taglib_file_free calls per file resource
    tagCalls,          \* engine: taglib_file_tag calls per file resource
    text,              \* engine: the text fields of each resource's tag
    num,               \* engine: the numeric fields of each resource's tag
    stringManagement,  \* engine: the process-wide string-management flag
    setMgmtCalls,      \* engine: taglib_set_string_management_enabled calls
    openCalls,         \* engine: taglib_file_new calls
    readCalls,         \* engine: text-read calls (buffers handed out)
    freeBufCalls,      \* engine: taglib_free calls
    readFreed,         \* a buffer was read after it had been freed
    engineOwned,       \* engine: buffers it kept in its own free list
    writeCalls,        \* engine: setter calls received
    ret                \* the last wrapper call and what it returned

engineVars == <<resState, freeCalls, tagCalls, text, num, stringManagement,
                setMgmtCalls, openCalls, readCalls, freeBufCalls, readFreed,
                engineOwned, writeCalls>>
vars == <<handle, resState, freeCalls, tagCalls, text, num, stringManagement,
          setMgmtCalls, openCalls, readCalls, freeBufCalls, readFreed,
          engineOwned, writeCalls, ret>>

\* the file resources the engine can hand out; 0 is the null pointer
Res == 1..MaxCalls

\* TagLibTag::from_ptr
from_ptr(ptr) == [tag |-> ptr]

\* a thread that owns no TagLibFile
NoHandle == [file_handle |-> 0, tag |-> from_ptr(0)]

Live(h) == handle[h].file_handle # 0

Unit == <<>>
None == [some |-> FALSE, val |-> 0]
Some(v) == [some |-> TRUE, val |-> v]

Call(op, field, h, arg, val) ==
    [op |-> op, field |-> field, slot |-> h, arg |-> arg, val |-> val]

Init ==
    /\ handle = [h \in Slots |-> NoHandle]
    /\ resState = [r \in Res |-> "unused"]
    /\ freeCalls = [r \in Res |-> 0]
    /\ tagCalls = [r \in Res |-> 0]
    /\ text = [r \in Res |-> NoFile.text]
    /\ num = [r \in Res |-> NoFile.num]
    /\ stringManagement = TRUE
    /\ setMgmtCalls = 0
    /\ openCalls = 0
    /\ readCalls = 0
    /\ freeBufCalls = 0
    /\ readFreed = FALSE
    /\ engineOwned = 0
    /\ writeCalls = 0
    /\ ret = Call("init", "", 0, Unit, Unit)

(***************************************************************************)
(* The engine double.                                                      *)
(***************************************************************************)
\* the model stops calling the engine after MaxCalls counted calls
Budget == openCalls + readCalls + writeCalls < MaxCalls

\* the next file resource taglib_file_new hands out
NextRes == Cardinality({r \in Res : resState[r] # "unused"}) + 1

\* taglib_file_tag: the tag resource bound 1:1 to a file resource
taglib_file_tag(file_ptr) == file_ptr + 1000

\* the file resource a tag resource belongs to
FileOf(tag_ptr) == tag_ptr - 1000

\* taglib_tag_title .. taglib_tag_genre: a fresh buffer holding the field as
\* a C string
taglib_tag_text(tag_ptr, f) ==
    [bytes |-> text[FileOf(tag_ptr)][f] \o <<NUL>>, freed |-> 0]

\* taglib_free
taglib_free(buf) == [buf EXCEPT !.freed = @ + 1]

\* taglib_tag_set_title .. taglib_tag_set_genre: the engine copies the C string
taglib_tag_set_text(tag_ptr, f, cstr) ==
    [text EXCEPT ![FileOf(tag_ptr)][f] = CStrBytes(cstr)]

(***************************************************************************)
(* TagLibFile.                                                             *)
(***************************************************************************)
\* TagLibFile::new
new(h, path) ==
    /\ ~Live(h)
    /\ LET cs == cs_filename(path)
       IN IF ~cs.ok
          THEN /\ ret' = Call("new", "", h, path, Err(cs.err))
               /\ UNCHANGED <<handle, engineVars>>
          ELSE /\ Budget
               /\ stringManagement' = FALSE
               /\ setMgmtCalls' = setMgmtCalls + 1
               /\ openCalls' = openCalls + 1
               /\ LET file == Disk(CStrBytes(cs.val))
                      file_ptr == IF file.exists THEN NextRes ELSE 0
                  IN IF file_ptr = 0
                     THEN /\ ret' = Call("new", "", h, path, Err("OpenFailure"))
                          /\ UNCHANGED <<handle, resState, tagCalls, text, num>>
                     ELSE /\ resState' = [resState EXCEPT ![file_ptr] = "open"]
                          /\ text' = [text EXCEPT ![file_ptr] = file.text]
                          /\ num' = [num EXCEPT ![file_ptr] = file.num]
                          /\ IF ~file.valid
                             THEN /\ ret' = Call("new", "", h, path,
                                                 Err("InvalidTagFile"))
                                  /\ UNCHANGED <<handle, tagCalls>>
                             ELSE LET tag_ptr == taglib_file_tag(file_ptr)
                                      f == [file_handle |-> file_ptr,
                                            tag |-> from_ptr(tag_ptr)]
                                  IN /\ tagCalls' = [tagCalls EXCEPT
                                                       ![file_ptr] = @ + 1]
                                     /\ handle' = [handle EXCEPT ![h] = f]
                                     /\ ret' = Call("new", "", h, path, Ok(f))
               /\ UNCHANGED <<freeCalls, readCalls, freeBufCalls, readFreed,
                              engineOwned, writeCalls>>

\* save(): the comparison of the engine's status code
save_result(status_code) ==
    IF status_code = 0 THEN Err("SaveFailure") ELSE Ok(Unit)

\* fault: a save that gives up the file resource when the engine fails
save_frees_on_failure(h, status_code) ==
    /\ Live(h)
    /\ ret' = Call("save", "", h, status_code, save_result(status_code))
    /\ IF status_code = 0
       THEN /\ freeCalls' = [freeCalls EXCEPT ![handle[h].file_handle] = @ + 1]
            /\ resState' = [resState EXCEPT ![handle[h].file_handle] = "freed"]
       ELSE UNCHANGED <<freeCalls, resState>>
    /\ UNCHANGED <<handle, tagCalls, text, num, stringManagement, setMgmtCalls,
                   openCalls, readCalls, freeBufCalls, readFreed, engineOwned,
                   writeCalls>>

\* TagLibFile::save
save(h, status_code) ==
    /\ Live(h)
    /\ ret' = Call("save", "", h, status_code, save_result(status_code))
    /\ UNCHANGED <<handle, engineVars>>

\* TagLibFile::tag
tag(h) ==
    /\ Live(h)
    /\ ret' = Call("tag", "", h, Unit, handle[h].tag)
    /\ UNCHANGED <<handle, engineVars>>

\* fault: a destructor that forgets the engine's file resource
drop_forget(h) ==
    /\ Live(h)
    /\ handle' = [handle EXCEPT ![h] = NoHandle]
    /\ ret' = Call("drop", "", h, Unit, Unit)
    /\ UNCHANGED engineVars

\* impl Drop for TagLibFile
drop(h) ==
    /\ Live(h)
    /\ LET r == handle[h].file_handle
       IN /\ freeCalls' = [freeCalls EXCEPT ![r] = @ + 1]
          /\ resState' = [resState EXCEPT ![r] = "freed"]
          /\ text' = [text EXCEPT ![r] = NoFile.text]
          /\ num' = [num EXCEPT ![r] = NoFile.num]
    /\ handle' = [handle EXCEPT ![h] = NoHandle]
    /\ ret' = Call("drop", "", h, Unit, Unit)
    /\ UNCHANGED <<tagCalls, stringManagement, setMgmtCalls, openCalls,
                   readCalls, freeBufCalls, readFreed, engineOwned, writeCalls>>

(***************************************************************************)
(* TagLibTag.                                                              *)
(***************************************************************************)
\* CStr::from_ptr(..).to_str().map(|s| s.to_owned())
to_str(bytes) == IF Utf8Valid(bytes) THEN Ok(bytes) ELSE Err("Utf8Error")

\* fault: returning the decode error before the buffer is freed
read_and_parse_early_return(c_string_pointer) ==
    LET str_res == to_str(CStrBytes(c_string_pointer.bytes))
    IN [res |-> str_res,
        buf |-> IF str_res.ok THEN taglib_free(c_string_pointer)
                ELSE c_string_pointer,
        readFreed |-> c_string_pointer.freed > 0]

\* TagLibTag::read_and_parse: decode the buffer, then free it
read_and_parse(c_string_pointer) ==
    LET str_slice == CStrBytes(c_string_pointer.bytes)
        str_res == to_str(str_slice)
        freed == taglib_free(c_string_pointer)
    IN [res |-> str_res, buf |-> freed,
        readFreed |-> c_string_pointer.freed > 0]

\* the body shared by title, artist, album, comment, genre: accessor acc
\* reads through the engine's getter of field f
ReadText(h, acc, f) ==
    /\ Live(h)
    /\ Budget
    /\ LET p == read_and_parse(taglib_tag_text(handle[h].tag.tag, f))
       IN /\ readCalls' = readCalls + 1
          /\ engineOwned' = engineOwned + (IF stringManagement THEN 1 ELSE 0)
          /\ freeBufCalls' = freeBufCalls + p.buf.freed
          /\ readFreed' = (readFreed \/ p.readFreed)
          /\ ret' = Call("read", acc, h, Unit, p.res)
    /\ UNCHANGED <<handle, resState, freeCalls, tagCalls, text, num,
                   stringManagement, setMgmtCalls, openCalls, writeCalls>>

title(h) == ReadText(h, "title", "title")
artist(h) == ReadText(h, "artist", "artist")
album(h) == ReadText(h, "album", "album")
comment(h) == ReadText(h, "comment", "comment")
genre(h) == ReadText(h, "genre", "genre")

\* fault: the engine's number passed on without the sentinel mapping
sentinel_literal(v) == Some(v)

\* `match taglib_tag_year(self.tag) { 0 => None, v => Some(v) }`
sentinel(v) == IF v = 0 THEN None ELSE Some(v)

\* the body shared by year, track, bpm: accessor acc reads through the
\* engine's getter of field f
ReadNum(h, acc, f) ==
    /\ Live(h)
    /\ LET v == num[FileOf(handle[h].tag.tag)][f]
       IN ret' = Call("read_num", acc, h, v, sentinel(v))
    /\ UNCHANGED <<handle, engineVars>>

year(h) == ReadNum(h, "year", "year")
track(h) == ReadNum(h, "track", "track")
bpm(h) == ReadNum(h, "bpm", "bpm")

\* the body shared by set_title .. set_genre: accessor acc writes through
\* the engine's setter of field f
SetText(h, acc, f, value) ==
    /\ Live(h)
    /\ LET c == CString_new(value)
       IN IF c.ok
          THEN /\ Budget
               /\ writeCalls' = writeCalls + 1
               /\ text' = taglib_tag_set_text(handle[h].tag.tag, f, c.val)
               /\ ret' = Call("set", acc, h, value, Ok(Unit))
          ELSE /\ ret' = Call("set", acc, h, value, Err(c.err))
               /\ UNCHANGED <<writeCalls, text>>
    /\ UNCHANGED <<handle, resState, freeCalls, tagCalls, num,
                   stringManagement, setMgmtCalls, openCalls, readCalls,
                   freeBufCalls, readFreed, engineOwned>>

set_title(h, value) == SetText(h, "title", "title", value)
set_artist(h, value) == SetText(h, "artist", "artist", value)
\* fault: set_album calling the engine's artist setter
set_album_wrong_field(h, value) == SetText(h, "album", "artist", value)
set_album(h, value) == SetText(h, "album", "album", value)
set_comment(h, value) == SetText(h, "comment", "comment", value)
set_genre(h, value) == SetText(h, "genre", "genre", value)

\* the body shared by set_year, set_track: accessor acc writes through the
\* engine's setter of field f
SetNum(h, acc, f, v) ==
    /\ Live(h)
    /\ Budget
    /\ writeCalls' = writeCalls + 1
    /\ num' = [num EXCEPT ![FileOf(handle[h].tag.tag)][f] = v]
    /\ ret' = Call("set_num", acc, h, v, Unit)
    /\ UNCHANGED <<handle, resState, freeCalls, tagCalls, text,
                   stringManagement, setMgmtCalls, openCalls, readCalls,
                   freeBufCalls, readFreed, engineOwned>>

set_year(h, v) == SetNum(h, "year", "year", v)
set_track(h, v) == SetNum(h, "track", "track", v)

Next ==
    \/ \E h \in Slots, path \in PathInputs : new(h, path)
    \/ \E h \in Slots, status_code \in {0, 1} : save(h, status_code)
    \/ \E h \in Slots : tag(h)
    \/ \E h \in Slots : drop(h)
    \/ \E h \in Slots : title(h)
    \/ \E h \in Slots : artist(h)
    \/ \E h \in Slots : album(h)
    \/ \E h \in Slots : comment(h)
    \/ \E h \in Slots : genre(h)
    \/ \E h \in Slots : year(h)
    \/ \E h \in Slots : track(h)
    \/ \E h \in Slots : bpm(h)
    \/ \E h \in Slots, value \in TextInputs : set_title(h, value)
    \/ \E h \in Slots, value \in TextInputs : set_artist(h, value)
    \/ \E h \in Slots, value \in TextInputs : set_album(h, value)
    \/ \E h \in Slots, value \in TextInputs : set_comment(h, value)
    \/ \E h \in Slots, value \in TextInputs : set_genre(h, value)
    \/ \E h \in Slots, v \in U32Vals : set_year(h, v)
    \/ \E h \in Slots, v \in U32Vals : set_track(h, v)

Spec == Init /\ [][Next]_vars


(***************************************************************************)
(* Observations used by the properties.                                    *)
(***************************************************************************)
\* the file resource thread h's TagLibFile wraps
FileRes(h) == handle[h].file_handle

\* what a text read of field f through thread h's tag view returns now
ReadNow(h, f) == read_and_parse(taglib_tag_text(handle[h].tag.tag, f)).res

\* what a numeric read of field f through thread h's tag view returns now
NumNow(h, f) == sentinel(num[FileOf(handle[h].tag.tag)][f])

\* file resources that are open in the engine and wrapped by no TagLibFile
Leaked == {r \in Res : resState[r] = "open" /\ \A h \in Slots : FileRes(h) # r}

(***************************************************************************)
(* C1.  An open that fails the validity check returns InvalidTagFile with  *)
(* the opened file resource released: no engine file resource is open      *)
(* without a TagLibFile owning it.  (The code returns without freeing.)    *)
(***************************************************************************)
C1_InvalidOpenReleases ==
    /\ Leaked = {}
    /\ (ret.op = "new" /\ ~ret.val.ok /\ ret.val.err = "InvalidTagFile")
          => \A r \in Res : resState[r] # "unused" /\ (\A h \in Slots : FileRes(h) # r)
                              => freeCalls[r] = 1

(***************************************************************************)
(* C2.  The file resource a TagLibFile wraps is released exactly once: it  *)
(* has not been freed while the TagLibFile lives, the step that destroys   *)
(* the TagLibFile frees it once, no other step frees it, and a resource    *)
(* that no TagLibFile wraps is never freed (again).                        *)
(***************************************************************************)
C2_Step ==
    /\ \A h \in Slots :
          Live(h) =>
             /\ freeCalls[FileRes(h)] = 0
             /\ resState[FileRes(h)] = "open"
             /\ IF handle'[h] = NoHandle
                THEN /\ freeCalls'[FileRes(h)] = 1
                     /\ resState'[FileRes(h)] = "freed"
                     /\ ret'.op = "drop"
                ELSE /\ handle'[h] = handle[h]
                     /\ freeCalls'[FileRes(h)] = 0
                     /\ resState'[FileRes(h)] = "open"
    /\ \A r \in Res :
          (\A h \in Slots : FileRes(h) # r) => freeCalls'[r] = freeCalls[r]
    /\ \A r \in Res : freeCalls'[r] <= 1

C2_ReleasedExactlyOnce == [][C2_Step]_vars

\* a TagLibFile that was used has been destroyed and its resource freed once
C2_Witness ==
    /\ ret.op = "drop"
    /\ readCalls + writeCalls > 0
    /\ \E r \in Res : resState[r] = "freed" /\ freeCalls[r] = 1

(***************************************************************************)
(* C3.  Every text read frees the engine's buffer exactly once, whether    *)
(* decoding succeeded or failed: the engine has received as many           *)
(* taglib_free calls as text reads, and no buffer was read after its free. *)
(***************************************************************************)
C3_BuffersReleased == freeBufCalls = readCalls /\ ~readFreed

\* a read whose decoding failed has returned, and its buffer was freed
C3_Witness ==
    /\ ret.op = "read"
    /\ ~ret.val.ok
    /\ readCalls >= 1
    /\ freeBufCalls = readCalls

(***************************************************************************)
(* C4.  The engine's string-management mode is written exactly once per    *)
(* process, whatever number of opens the process makes.  (The code writes  *)
(* it in every open that reaches the engine.)                              *)
(***************************************************************************)
C4_ModeSetOnce == setMgmtCalls <= 1

(***************************************************************************)
(* C5.  A text setter given a value with an embedded terminator returns    *)
(* the encode error and makes no engine write call: a read of that field   *)
(* afterwards returns what it returned before, and every field the engine  *)
(* holds, text or numeric, is unchanged.                                   *)
(***************************************************************************)
C5_Step ==
    \A h \in Slots, f \in Fields :
       (ret'.op = "set" /\ ret'.slot = h /\ ret'.field = f
          /\ HasNul(ret'.arg)) =>
          /\ ret'.val = Err("NulError")
          /\ writeCalls' = writeCalls
          /\ ReadNow(h, f)' = ReadNow(h, f)
          /\ text' = text
          /\ num' = num

C5_NulSetterIsNoOp == [][C5_Step]_vars

\* a setter has refused a value with an embedded terminator
C5_Witness ==
    /\ ret.op = "set"
    /\ HasNul(ret.arg)
    /\ ~ret.val.ok
    /\ Live(ret.slot)

(***************************************************************************)
(* C6.  A text setter given a value without embedded terminator succeeds,  *)
(* a read of that field right after it returns the value, and the reads    *)
(* of the other four text fields return what they returned before.         *)
(***************************************************************************)
C6_Step ==
    \A h \in Slots, f \in Fields :
       (ret'.op = "set" /\ ret'.slot = h /\ ret'.field = f
          /\ ~HasNul(ret'.arg)) =>
          /\ ret'.val = Ok(Unit)
          /\ ReadNow(h, f)' = Ok(ret'.arg)
          /\ \A g \in Fields \ {f} : ReadNow(h, g)' = ReadNow(h, g)

C6_RoundTrip == [][C6_Step]_vars

\* a setter has stored a two-byte character and the field reads it back
C6_Witness ==
    /\ ret.op = "set"
    /\ ret.val.ok
    /\ ret.arg = <<195, 169>>
    /\ Live(ret.slot)
    /\ ReadNow(ret.slot, ret.field) = Ok(<<195, 169>>)

(***************************************************************************)
(* C7.  new() is all-or-nothing with a fixed order of checks: a path that  *)
(* is not text gives PathAsString, text with an embedded terminator gives  *)
(* NullPathString, both without any engine call; no resource from the      *)
(* engine gives OpenFailure; a TagLibFile is returned only for a resource  *)
(* the engine opened and found valid, and taglib_file_tag is called once,  *)
(* on that resource only.                                                  *)
(***************************************************************************)
C7_Step ==
    (ret'.op = "new") =>
       LET h == ret'.slot
           path == ret'.arg
           r == ret'.val
           file == Disk(path)
       IN /\ ~Utf8Valid(path) =>
                r = Err("PathAsString") /\ UNCHANGED <<handle, engineVars>>
          /\ (Utf8Valid(path) /\ HasNul(path)) =>
                r = Err("NullPathString") /\ UNCHANGED <<handle, engineVars>>
          /\ (Utf8Valid(path) /\ ~HasNul(path)) =>
                /\ openCalls' = openCalls + 1
                /\ ~file.exists =>
                      /\ r = Err("OpenFailure")
                      /\ UNCHANGED <<handle, resState, tagCalls>>
                /\ (file.exists /\ ~file.valid) =>
                      /\ r = Err("InvalidTagFile")
                      /\ UNCHANGED <<handle, tagCalls>>
                /\ (file.exists /\ file.valid) => r.ok
          /\ r.ok =>
                /\ Utf8Valid(path) /\ ~HasNul(path)
                /\ file.exists /\ file.valid
                /\ handle'[h] = r.val
                /\ resState[r.val.file_handle] = "unused"
                /\ resState'[r.val.file_handle] = "open"
                /\ r.val.tag = from_ptr(taglib_file_tag(r.val.file_handle))
                /\ tagCalls'[r.val.file_handle] = 1
          /\ \A q \in Res :
                tagCalls'[q] # tagCalls[q] => r.ok /\ q = r.val.file_handle

C7_OpenAllOrNothing == [][C7_Step]_vars

\* a second engine open has returned a TagLibFile, bound to its tag once
C7_Witness ==
    /\ ret.op = "new"
    /\ ret.val.ok
    /\ handle[ret.slot] = ret.val.val
    /\ tagCalls[ret.val.val.file_handle] = 1
    /\ openCalls >= 2

(***************************************************************************)
(* C8.  save() returns SaveFailure when the engine's status code is zero   *)
(* and success otherwise; on either outcome it changes nothing of the      *)
(* wrapper or of the engine's resources: the TagLibFile keeps its file and *)
(* tag resources, and the file resource stays open and is not freed.       *)
(***************************************************************************)
C8_Step ==
    (ret'.op = "save") =>
       LET h == ret'.slot
           status_code == ret'.arg
       IN /\ (status_code = 0) => ret'.val = Err("SaveFailure")
          /\ (status_code # 0) => ret'.val = Ok(Unit)
          /\ handle' = handle
          /\ Live(h)
          /\ resState'[FileRes(h)] = "open"
          /\ freeCalls'[FileRes(h)] = 0
          /\ UNCHANGED engineVars

C8_SaveFailureKeepsHandle == [][C8_Step]_vars

\* a save has failed and the TagLibFile is still usable
C8_Witness ==
    /\ ret.op = "save"
    /\ ret.arg = 0
    /\ ret.val = Err("SaveFailure")
    /\ Live(ret.slot)
    /\ resState[FileRes(ret.slot)] = "open"

(***************************************************************************)
(* C9.  year, track and bpm return absent when the engine returns 0 and    *)
(* present-with-v for any other v, never present-with-0; after set_year(0) *)
(* or set_track(0) the matching read returns absent.                       *)
(***************************************************************************)
C9_Step ==
    /\ (ret'.op = "read_num") =>
          LET v == num[FileRes(ret'.slot)][ret'.field]
          IN /\ ret'.arg = v
             /\ (v = 0) => ret'.val = None
             /\ (v # 0) => ret'.val = Some(v)
             /\ ~(ret'.val.some /\ ret'.val.val = 0)
    /\ \A h \in Slots, f \in NumFields :
          (ret'.op = "set_num" /\ ret'.slot = h /\ ret'.field = f
             /\ ret'.arg = 0) => NumNow(h, f)' = None

C9_SentinelIsAbsent == [][C9_Step]_vars

\* the year of the file whose year on disk is not zero reads absent
C9_Witness ==
    /\ ret.op = "read_num"
    /\ ret.field = "year"
    /\ ret.val = None
    /\ Live(ret.slot)
    /\ text[FileRes(ret.slot)]["title"] = <<255>>

(***************************************************************************)
(* C10.  Two TagLibFiles share no mutable state: a wrapper call made by    *)
(* one thread writes nothing that the calls on the other thread's          *)
(* TagLibFile read - neither that file's resource and fields nor the       *)
(* process-wide string-management mode.  (Every open writes the mode.)     *)
(***************************************************************************)
C10_Step ==
    \A a \in Slots :
       (Live(a) /\ ret'.slot # a) =>
          /\ handle'[a] = handle[a]
          /\ resState'[FileRes(a)] = resState[FileRes(a)]
          /\ text'[FileRes(a)] = text[FileRes(a)]
          /\ num'[FileRes(a)] = num[FileRes(a)]
          /\ stringManagement' = stringManagement
          /\ setMgmtCalls' = setMgmtCalls

C10_NoSharedWrites == [][C10_Step]_vars

====
